---- MODULE Spec2Model ----
(***************************************************************************)
(* Vibe music player: the playback core of src/audio.py (AudioPlayer) as   *)
(* driven by the event loop of src/player.py (Player_Window.start_player). *)
(*                                                                         *)
(* Time is counted in pygame ticks (milliseconds).  seek_offset, which the *)
(* code keeps in seconds as a float, is kept here in milliseconds so that  *)
(* every value stays an integer; song_length stays in whole seconds as in  *)
(* the code.                                                               *)
(***************************************************************************)
EXTENDS Integers, Sequences, FiniteSets, TLC

(* ------------------------------ bounds -------------------------------- *)

\* Number of MP3 files on disk the file dialog can offer (ids 1..NumTracks).
NumTracks == 2

\* Number of clock advances of TickStep ticks each.
MaxTicks == 1

\* Ticks that pass between two observations of the clock.
TickStep == 1200

\* Finished notifications that may wait in the event queue.
MaxPending == 1

\* Largest number of consecutive toggle_loop_mode calls compared.
MaxToggles == 10

\* Width in pixels of the slider's rect.
SliderWidth == 4

\* Largest whole number of seconds given to convert_sec_min.
MaxSeconds == 3661

(* ------------------------- program constants -------------------------- *)

\* elapsed = (get_ticks() - last_update_time) / 1000.0
TicksPerSecond == 1000

\* loop_mode = (loop_mode + 1) % 3
NumLoopModes == 3

\* if abs(new_value - self.value) > 1e-6, as 1 / ThresholdInverse
ThresholdInverse == 1000000

(* ------------------------------ inputs -------------------------------- *)

Tracks == 1..NumTracks

RECURSIVE Ascending(_)
\* The strictly ascending sequences over 1..n (the empty one included).
Ascending(n) ==
    IF n = 0 THEN {<<>>}
    ELSE Ascending(n - 1) \cup {Append(q, n) : q \in Ascending(n - 1)}

\* What filedialog.askopenfilenames can return: any set of the files, in
\* directory order; the empty tuple when the dialog is cancelled.
Selections == Ascending(NumTracks)

\* Values the music slider hands to adjust_song, as <<num, den>>.
SliderValues == {<<0, 1>>, <<1, 2>>, <<1, 1>>}

\* Values the volume slider hands to change_volume.
VolumeValues == {<<1, 2>>, <<1, 1>>}

\* MP3(path).info.length of track t, in milliseconds: 2.5 s for the odd
\* files, 1.5 s for the even ones.
InfoLengthMs(t) == 1500 + 1000 * (t % 2)

\* audio_file.get("title"): the tag list, empty when the tag is absent.
TitleTags(t) == IF t % 2 = 1 THEN <<"T" \o ToString(t)>> ELSE <<>>

\* audio_file.get("artist")
ArtistTags(t) == IF t % 3 # 0 THEN <<"A" \o ToString(t)>> ELSE <<>>

\* What one _play_music meets: the first call that fails (music.load,
\* music.play, or mutagen's MP3(...) in _song_meta_data), or none.
PlayOutcomes == {"ok", "load", "play", "meta"}

\* What one adjust_song meets: set_pos fails, or the play/unpause after it.
SeekOutcomes == {"ok", "set_pos", "play"}

\* pygame.Rect(x, y, width, height)
Rect(x, y, width, height) ==
    [x |-> x, y |-> y, width |-> width, height |-> height]

\* Left edge of the slider's rect; the button's rect lies wholly to the
\* right of it.
SliderX == 2

\* The slider's rect as built, and one without width.
SliderRects == {Rect(SliderX, 0, SliderWidth, 1), Rect(SliderX, 0, 0, 1)}

\* value=0 (music_slider), value=0.5 (volume_slider), and the
\* current_pos / song_length the loop writes to music_slider.value early
\* in a long track: 0.0000005.
InitialValues == {<<0, 1>>, <<1, 2>>, <<1, 2 * ThresholdInverse>>}

\* self.rect = self.img.get_rect(center=(x_pos, y_pos))
ButtonRect == Rect(SliderX + SliderWidth + 2, 0, 2, 1)

\* Mouse positions: left of, inside, at the end of and right of both
\* rects, on their row (y = 0) and below it.
Positions == (0..(ButtonRect.x + ButtonRect.width)) \X (0..1)

\* Mouse buttons: left, right.
MouseButtons == {1, 3}

\* Milliseconds by which the position given to convert_sec_min grows from
\* one call to the next: values with and without a fraction of a second.
SecondsSteps == {300, 700}

(* ------------------------------- state -------------------------------- *)

VARIABLES
    AUDIO_OK,             \* pygame.mixer.init() and set_endevent succeeded
    playlist,             \* list of file ids
    index,
    is_playing,
    paused,
    loop_mode,
    current_song_title,
    current_song_artist,
    current_song_length,  \* "M:SS"
    song_length,          \* whole seconds
    seek_offset,          \* milliseconds
    last_update_time,     \* ticks
    current_icon,         \* audio.current_icon: "play" or "pause"
    clock,                \* pygame.time.get_ticks()
    music,                \* backend: "none", "stopped", "playing", "paused"
    end_events,           \* number of USEREVENT+1 events in the queue
    cmds,                 \* external calls of the last handler: <<op, arg, ok>>
    intent,               \* the handler that ran last
    fault,                \* exception that escaped into the event loop
    slider,               \* a Slider_UI: rect, value <<num, den>>, dragging
    button,               \* a Buttons: rect, is_down
    event,                \* the pygame event handled last
    on_click,             \* values the slider passed to on_click for it
    clicked,              \* what button.was_clicked(event) returned
    current_seconds,      \* argument of convert_sec_min, in milliseconds
    current_song_position \* the "M:SS" text made from it

\* The fields of AudioPlayer, the backend and the event queue.
audio == <<AUDIO_OK, playlist, index, is_playing, paused, loop_mode,
           current_song_title, current_song_artist, current_song_length,
           song_length, seek_offset, last_update_time, current_icon,
           clock, music, end_events, cmds, intent, fault>>

\* The widgets a mouse event reaches.
widgets == <<slider, button, event, on_click, clicked>>

\* The position display.
display == <<current_seconds, current_song_position>>

vars == <<AUDIO_OK, playlist, index, is_playing, paused, loop_mode,
          current_song_title, current_song_artist, current_song_length,
          song_length, seek_offset, last_update_time, current_icon,
          clock, music, end_events, cmds, intent, fault,
          slider, button, event, on_click, clicked,
          current_seconds, current_song_position>>

(* ----------------------------- helpers -------------------------------- *)

\* f"{minutes}:{remaining_seconds:02}"
Format(minutes, remaining_seconds) ==
    ToString(minutes) \o ":" \o
    (IF remaining_seconds < 10 THEN "0" ELSE "") \o ToString(remaining_seconds)

\* convert_sec_min rounding to the nearest second instead of truncating.
convert_sec_min_rounds(ms) ==
    LET whole == (ms + TicksPerSecond \div 2) \div TicksPerSecond
    IN  Format(whole \div 60, whole % 60)

\* convert_sec_min, on a value given in milliseconds: int(seconds) first.
convert_sec_min(ms) ==
    LET whole == ms \div TicksPerSecond
    IN  Format(whole \div 60, whole % 60)

\* The object's fields, and the backend, as one record the methods thread
\* through; raised is the exception in flight ("none" when there is none).
Self ==
    [playlist |-> playlist, index |-> index, is_playing |-> is_playing,
     paused |-> paused, loop_mode |-> loop_mode,
     current_song_title |-> current_song_title,
     current_song_artist |-> current_song_artist,
     current_song_length |-> current_song_length,
     song_length |-> song_length, seek_offset |-> seek_offset,
     last_update_time |-> last_update_time, current_icon |-> current_icon,
     music |-> music, cmds |-> <<>>,
     raised |-> "none"]

\* The handler returned (or raised) with the object in state r.
Commit(r, name) ==
    LET s == r
    IN  /\ playlist' = s.playlist
        /\ index' = s.index
        /\ is_playing' = s.is_playing
        /\ paused' = s.paused
        /\ loop_mode' = s.loop_mode
        /\ current_song_title' = s.current_song_title
        /\ current_song_artist' = s.current_song_artist
        /\ current_song_length' = s.current_song_length
        /\ song_length' = s.song_length
        /\ seek_offset' = s.seek_offset
        /\ last_update_time' = s.last_update_time
        /\ current_icon' = s.current_icon
        /\ music' = s.music
        /\ cmds' = s.cmds
        /\ fault' = s.raised
        /\ intent' = name

Call(s, op, arg, ok) == [s EXCEPT !.cmds = Append(@, <<op, arg, ok>>)]

Raise(s, exc) == [s EXCEPT !.raised = exc]

InRange(s) == s.index + 1 \in DOMAIN s.playlist

\* The calls among c that went to pygame.mixer.music (MP3(...) is mutagen's).
MixerCalls(c) == SelectSeq(c, LAMBDA call : call[1] # "MP3")

\* The last call of c was a load or play the backend rejected.
RejectedPlay(c) ==
    /\ c # <<>>
    /\ c[Len(c)][1] \in {"load", "play"}
    /\ c[Len(c)][3] = FALSE

(* --------------------------- AudioPlayer ------------------------------ *)

\* _song_meta_data: read the tags of playlist[index]; on any exception the
\* fields are left as they are (except Exception: pass).
_song_meta_data(s, ok) ==
    IF ~InRange(s) THEN s
    ELSE IF ~ok THEN Call(s, "MP3", s.playlist[s.index + 1], FALSE)
    ELSE LET t == s.playlist[s.index + 1]
             title == IF TitleTags(t) # <<>> THEN TitleTags(t)[1] ELSE ""
             artist == IF ArtistTags(t) # <<>> THEN ArtistTags(t)[1] ELSE ""
             seconds == InfoLengthMs(t) \div TicksPerSecond
         IN  [Call(s, "MP3", t, TRUE) EXCEPT
                       !.song_length = seconds,
                       !.current_song_title = title,
                       !.current_song_artist = artist,
                       !.current_song_length = Format(seconds \div 60, seconds % 60)]

\* _play_music with the seek offset of the track before left in place.
_play_music_keeps_offset(s, song, o, now) ==
    IF ~AUDIO_OK THEN s
    ELSE IF o = "load" THEN Raise(Call(s, "load", song, FALSE), "pygame.error")
    ELSE LET loaded == [Call(s, "load", song, TRUE) EXCEPT !.music = "stopped"]
         IN  IF o = "play" THEN
                 Raise(Call(loaded, "play", 0, FALSE), "pygame.error")
             ELSE _song_meta_data(
                      [Call(loaded, "play", 0, TRUE) EXCEPT
                          !.music = "playing",
                          !.is_playing = TRUE,
                          !.paused = FALSE,
                          !.last_update_time = now],
                      o # "meta")

\* _play_music(song): nothing at all unless AUDIO_OK; load and play raise
\* pygame.error when the backend rejects them, and nothing here catches it.
_play_music(s, song, o, now) ==
    IF ~AUDIO_OK THEN s
    ELSE IF o = "load" THEN Raise(Call(s, "load", song, FALSE), "pygame.error")
    ELSE LET loaded == [Call(s, "load", song, TRUE) EXCEPT !.music = "stopped"]
         IN  IF o = "play" THEN Raise(Call(loaded, "play", 0, FALSE), "pygame.error")
             ELSE _song_meta_data(
                      [Call(loaded, "play", 0, TRUE) EXCEPT
                          !.music = "playing",
                          !.is_playing = TRUE,
                          !.paused = FALSE,
                          !.seek_offset = 0,
                          !.last_update_time = now],
                      o # "meta")

\* _pause_music with the paused flag left clear.
_pause_music_leaves_flag(s, ok) ==
    IF ~AUDIO_OK THEN s
    ELSE IF ~ok THEN Raise(Call(s, "pause", 0, FALSE), "pygame.error")
    ELSE [Call(s, "pause", 0, TRUE) EXCEPT
             !.music = IF @ = "playing" THEN "paused" ELSE @,
             !.is_playing = FALSE]

\* _pause_music
_pause_music(s, ok) ==
    IF ~AUDIO_OK THEN s
    ELSE IF ~ok THEN Raise(Call(s, "pause", 0, FALSE), "pygame.error")
    ELSE [Call(s, "pause", 0, TRUE) EXCEPT
             !.music = IF @ = "playing" THEN "paused" ELSE @,
             !.is_playing = FALSE,
             !.paused = TRUE]

\* self._play_music(self.playlist[self.index]): the subscript is evaluated
\* first and raises IndexError when index is past the end.
PlayCurrent(s, o, now) ==
    IF ~InRange(s) THEN Raise(s, "IndexError")
    ELSE _play_music(s, s.playlist[s.index + 1], o, now)

\* pygame.mixer.music.unpause(); self.paused = False
Unpause(s, ok) ==
    IF ~ok THEN Raise(Call(s, "unpause", 0, FALSE), "pygame.error")
    ELSE [Call(s, "unpause", 0, TRUE) EXCEPT
             !.music = IF @ = "paused" THEN "playing" ELSE @,
             !.paused = FALSE]

\* toggle_play_pause without the except branch of the resume: what the
\* first attempt raises leaves the handler.
toggle_play_pause_no_fallback(s, ok, o1, o2, now) ==
    IF s.playlist = <<>> THEN s
    ELSE IF s.is_playing THEN
        LET r == _pause_music(s, ok)
        IN  [r EXCEPT !.raised = "none",
                      !.is_playing = FALSE,
                      !.current_icon = "play"]
    ELSE
        LET r == IF ~s.paused THEN PlayCurrent(s, o1, now)
                 ELSE Unpause(s, ok)
        IN  IF r.raised # "none" THEN r
            ELSE [r EXCEPT !.is_playing = TRUE, !.current_icon = "pause"]

\* toggle_play_pause that starts the current track over where it should
\* resume a paused one.
toggle_play_pause_restarts(s, ok, o1, o2, now) ==
    IF s.playlist = <<>> THEN s
    ELSE IF s.is_playing THEN
        LET r == _pause_music(s, ok)
        IN  [r EXCEPT !.raised = "none",
                      !.is_playing = FALSE,
                      !.current_icon = "play"]
    ELSE
        LET first == PlayCurrent(s, o1, now)
            r == IF first.raised = "none" THEN first
                 ELSE PlayCurrent([first EXCEPT !.raised = "none"], o2, now)
        IN  IF r.raised # "none" THEN r
            ELSE [r EXCEPT !.is_playing = TRUE, !.current_icon = "pause"]

\* toggle_play_pause.  o1 decides the first attempt (pause, unpause or
\* load/play), o2 the _play_music of the except branch.
toggle_play_pause(s, ok, o1, o2, now) ==
    IF s.playlist = <<>> THEN s
    ELSE IF s.is_playing THEN
        LET r == _pause_music(s, ok)
        IN  [r EXCEPT !.raised = "none",
                      !.is_playing = FALSE,
                      !.current_icon = "play"]
    ELSE
        LET first == IF ~s.paused THEN PlayCurrent(s, o1, now)
                     ELSE Unpause(s, ok)
            r == IF first.raised = "none" THEN first
                 ELSE PlayCurrent([first EXCEPT !.raised = "none"], o2, now)
        IN  IF r.raised # "none" THEN r
            ELSE [r EXCEPT !.is_playing = TRUE, !.current_icon = "pause"]

\* add_songs that appends the selection to the playlist.
add_songs_appends(s, files, o, now) ==
    IF files = <<>> THEN s
    ELSE LET r == PlayCurrent([s EXCEPT !.playlist = @ \o files], o, now)
         IN  IF r.raised # "none" THEN r
             ELSE [r EXCEPT !.is_playing = TRUE, !.current_icon = "pause"]

\* add_songs, files being what the dialog returned.
add_songs(s, files, o, now) ==
    IF files = <<>> THEN s
    ELSE LET r == PlayCurrent([s EXCEPT !.playlist = files], o, now)
         IN  IF r.raised # "none" THEN r
             ELSE [r EXCEPT !.is_playing = TRUE, !.current_icon = "pause"]

\* next_song without the early return on an empty playlist: the modulo by
\* len(self.playlist) = 0 raises.
next_song_unguarded(s, o, now) ==
    IF s.playlist = <<>> THEN Raise(s, "ZeroDivisionError")
    ELSE LET r == PlayCurrent(
                    [s EXCEPT !.index = (s.index + 1) % Len(s.playlist)], o, now)
         IN  IF r.raised # "none" THEN r
             ELSE [r EXCEPT !.is_playing = TRUE, !.current_icon = "pause"]

\* next_song that stays on the last track where it should wrap to the first.
next_song_stays_at_end(s, o, now) ==
    IF s.playlist = <<>> THEN s
    ELSE LET r == PlayCurrent(
                    [s EXCEPT !.index = IF s.index + 1 < Len(s.playlist)
                                        THEN s.index + 1 ELSE s.index],
                    o, now)
         IN  IF r.raised # "none" THEN r
             ELSE [r EXCEPT !.is_playing = TRUE, !.current_icon = "pause"]

\* next_song
next_song(s, o, now) ==
    IF s.playlist = <<>> THEN s
    ELSE LET r == PlayCurrent(
                    [s EXCEPT !.index = (s.index + 1) % Len(s.playlist)], o, now)
         IN  IF r.raised # "none" THEN r
             ELSE [r EXCEPT !.is_playing = TRUE, !.current_icon = "pause"]

\* previous_song
previous_song(s, o, now) ==
    IF s.playlist = <<>> THEN s
    ELSE LET r == PlayCurrent(
                    [s EXCEPT !.index = (s.index - 1) % Len(s.playlist)], o, now)
         IN  IF r.raised # "none" THEN r
             ELSE [r EXCEPT !.is_playing = TRUE, !.current_icon = "pause"]

\* change_volume: set_volume is called whatever AUDIO_OK is.
change_volume(s, value, ok) ==
    IF ~ok THEN Raise(Call(s, "set_volume", value, FALSE), "pygame.error")
    ELSE Call(s, "set_volume", value, TRUE)

\* adjust_song with the paused flag left set when playback is started from
\* the seek position.
adjust_song_keeps_paused(s, value, o, now) ==
    IF s.playlist = <<>> \/ s.song_length = 0 THEN s
    ELSE LET position == (value[1] * s.song_length * TicksPerSecond) \div value[2]
             stored == [s EXCEPT !.seek_offset = position,
                                 !.last_update_time = now]
         IN  IF o = "set_pos" THEN Call(stored, "set_pos", position, FALSE)
             ELSE LET set == Call(stored, "set_pos", position, TRUE)
                  IN  IF ~set.is_playing /\ o # "play" THEN
                          [Call(set, "play", position, TRUE) EXCEPT
                              !.music = "playing",
                              !.is_playing = TRUE]
                      ELSE set

\* adjust_song(value), value = <<num, den>>.  pygame.error is caught and
\* printed.
adjust_song(s, value, o, now) ==
    IF s.playlist = <<>> \/ s.song_length = 0 THEN s
    ELSE LET position == (value[1] * s.song_length * TicksPerSecond) \div value[2]
             stored == [s EXCEPT !.seek_offset = position,
                                 !.last_update_time = now]
         IN  IF o = "set_pos" THEN Call(stored, "set_pos", position, FALSE)
             ELSE LET set == Call(stored, "set_pos", position, TRUE)
                  IN  IF ~set.is_playing THEN
                          IF o = "play" THEN Call(set, "play", position, FALSE)
                          ELSE [Call(set, "play", position, TRUE) EXCEPT
                                   !.music = "playing",
                                   !.is_playing = TRUE,
                                   !.paused = FALSE]
                      ELSE IF set.paused THEN
                          IF o = "play" THEN Call(set, "unpause", 0, FALSE)
                          ELSE [Call(set, "unpause", 0, TRUE) EXCEPT
                                   !.music = IF @ = "paused" THEN "playing" ELSE @,
                                   !.paused = FALSE]
                      ELSE set

\* get_current_position without the min(..., song_length).
get_current_position_unclamped(now) ==
    IF ~is_playing \/ paused THEN seek_offset
    ELSE seek_offset + (now - last_update_time)

\* get_current_position that starts again from 0 at the end of the track.
get_current_position_wraps(now) ==
    IF ~is_playing \/ paused THEN seek_offset
    ELSE LET current_pos == seek_offset + (now - last_update_time)
             limit == song_length * TicksPerSecond
         IN  IF current_pos < limit THEN current_pos ELSE 0

\* get_current_position that keeps counting while paused.
get_current_position_ignores_pause(now) ==
    IF ~is_playing /\ ~paused THEN seek_offset
    ELSE LET current_pos == seek_offset + (now - last_update_time)
             limit == song_length * TicksPerSecond
         IN  IF current_pos < limit THEN current_pos ELSE limit

\* get_current_position, in milliseconds, read when the clock shows now.
get_current_position(now) ==
    IF ~is_playing \/ paused THEN seek_offset
    ELSE LET current_pos == seek_offset + (now - last_update_time)
             limit == song_length * TicksPerSecond
         IN  IF current_pos < limit THEN current_pos ELSE limit

\* The position string; now is pygame.time.get_ticks().
update_current_position(now) ==
    IF playlist # <<>> /\ song_length > 0
    THEN convert_sec_min(get_current_position(now))
    ELSE "0:00"

\* toggle_loop_mode that alternates between two modes.
toggle_loop_mode_two_modes(s) ==
    [s EXCEPT !.loop_mode = (s.loop_mode + 1) % 2]

\* toggle_loop_mode that also rewinds the position.
toggle_loop_mode_rewinds(s) ==
    [s EXCEPT !.loop_mode = (s.loop_mode + 1) % NumLoopModes,
              !.seek_offset = 0]

\* toggle_loop_mode
toggle_loop_mode(s) ==
    [s EXCEPT !.loop_mode = (s.loop_mode + 1) % NumLoopModes]

\* on_song_end with the branches of loop modes 1 and 2 exchanged.
on_song_end_exchanged(s, o, now) ==
    IF s.loop_mode = 1 THEN
        LET r == PlayCurrent(s, o, now)
        IN  IF r.raised # "none" THEN r
            ELSE [r EXCEPT !.current_icon = "pause"]
    ELSE IF s.loop_mode = 2 THEN next_song(s, o, now)
    ELSE [s EXCEPT !.is_playing = FALSE,
                   !.paused = FALSE,
                   !.seek_offset = 0,
                   !.last_update_time = 0,
                   !.current_icon = "play"]

\* on_song_end that leaves the seek offset alone when playback stops.
on_song_end_keeps_offset(s, o, now) ==
    IF s.loop_mode = 2 THEN
        LET r == PlayCurrent(s, o, now)
        IN  IF r.raised # "none" THEN r
            ELSE [r EXCEPT !.current_icon = "pause"]
    ELSE IF s.loop_mode = 1 THEN next_song(s, o, now)
    ELSE [s EXCEPT !.is_playing = FALSE,
                   !.paused = FALSE,
                   !.last_update_time = 0,
                   !.current_icon = "play"]

\* on_song_end
on_song_end(s, o, now) ==
    IF s.loop_mode = 2 THEN
        LET r == PlayCurrent(s, o, now)
        IN  IF r.raised # "none" THEN r
            ELSE [r EXCEPT !.current_icon = "pause"]
    ELSE IF s.loop_mode = 1 THEN next_song(s, o, now)
    ELSE [s EXCEPT !.is_playing = FALSE,
                   !.paused = FALSE,
                   !.seek_offset = 0,
                   !.last_update_time = 0,
                   !.current_icon = "play"]

\* return self.loop_mode, the value toggle_loop_mode hands to its caller.
toggle_loop_mode_returns(s) == toggle_loop_mode(s).loop_mode

RECURSIVE Toggled(_, _)
\* The loop modes seen while toggle_loop_mode is called n times in a row
\* on s: the mode before the first call, then the mode after each call.
Toggled(s, n) ==
    IF n = 0 THEN <<s.loop_mode>>
    ELSE LET seen == Toggled(s, n - 1)
             last == [s EXCEPT !.loop_mode = seen[Len(seen)]]
         IN  Append(seen, toggle_loop_mode(last).loop_mode)

(* ------------------------- Slider_UI, Buttons -------------------------- *)

\* pygame.Rect.collidepoint: the right and bottom edges are outside.
collidepoint(rect, pos) ==
    /\ rect.x <= pos[1] /\ pos[1] < rect.x + rect.width
    /\ rect.y <= pos[2] /\ pos[2] < rect.y + rect.height

\* abs(a - b) > 1e-6 for values <<num, den>>: |d| / (a[2] * b[2]) > 1e-6,
\* for whole numbers |d| > (a[2] * b[2]) div 10^6.
FartherThanThreshold(a, b) ==
    LET d == a[1] * b[2] - b[1] * a[2]
    IN  (IF d < 0 THEN -d ELSE d) > (a[2] * b[2]) \div ThresholdInverse

\* max(0.0, min(1.0, relative_x / self.rect.width))
Clamped(relative_x, width) ==
    IF relative_x <= 0 THEN <<0, 1>>
    ELSE IF relative_x >= width THEN <<1, 1>>
    ELSE <<relative_x, width>>

\* _update_slider_position without the clamp to [0.0, 1.0].
_update_slider_position_unclamped(s, pos) ==
    IF s.rect.width <= 0 THEN s
    ELSE LET new_value == <<pos[1] - s.rect.x, s.rect.width>>
         IN  IF FartherThanThreshold(new_value, s.value) THEN
                 [s EXCEPT !.value = new_value,
                           !.on_click = Append(@, new_value)]
             ELSE s

\* _update_slider_position calling on_click whether the value changed or not.
_update_slider_position_always_calls(s, pos) ==
    IF s.rect.width <= 0 THEN s
    ELSE LET relative_x == pos[1] - s.rect.x
             new_value == Clamped(relative_x, s.rect.width)
         IN  IF FartherThanThreshold(new_value, s.value) THEN
                 [s EXCEPT !.value = new_value,
                           !.on_click = Append(@, new_value)]
             ELSE [s EXCEPT !.on_click = Append(@, s.value)]

\* _update_slider_position; s carries the slider's fields and the calls
\* made to on_click.
_update_slider_position(s, pos) ==
    IF s.rect.width <= 0 THEN s
    ELSE LET relative_x == pos[1] - s.rect.x
             new_value == Clamped(relative_x, s.rect.width)
         IN  IF FartherThanThreshold(new_value, s.value) THEN
                 [s EXCEPT !.value = new_value,
                           !.on_click = Append(@, new_value)]
             ELSE s

\* handle_event starting a drag on a press of any mouse button.
handle_event_any_button(s, e) ==
    IF e.type = "MOUSEBUTTONDOWN" /\ collidepoint(s.rect, e.pos)
    THEN _update_slider_position([s EXCEPT !.dragging = TRUE], e.pos)
    ELSE IF e.type = "MOUSEMOTION" /\ s.dragging
    THEN _update_slider_position(s, e.pos)
    ELSE IF e.type = "MOUSEBUTTONUP" /\ e.button = 1
    THEN [s EXCEPT !.dragging = FALSE]
    ELSE s

\* Slider_UI.handle_event
handle_event(s, e) ==
    IF e.type = "MOUSEBUTTONDOWN" /\ e.button = 1 /\ collidepoint(s.rect, e.pos)
    THEN _update_slider_position([s EXCEPT !.dragging = TRUE], e.pos)
    ELSE IF e.type = "MOUSEMOTION" /\ s.dragging
    THEN _update_slider_position(s, e.pos)
    ELSE IF e.type = "MOUSEBUTTONUP" /\ e.button = 1
    THEN [s EXCEPT !.dragging = FALSE]
    ELSE s

\* handle_overlay clearing is_down only on a release inside the rect.
handle_overlay_release_inside(b, e) ==
    IF e.type = "MOUSEBUTTONDOWN" THEN
        IF collidepoint(b.rect, e.pos) THEN [b EXCEPT !.is_down = TRUE] ELSE b
    ELSE IF e.type = "MOUSEBUTTONUP" /\ collidepoint(b.rect, e.pos)
    THEN [b EXCEPT !.is_down = FALSE]
    ELSE b

\* Buttons.handle_overlay
handle_overlay(b, e) ==
    IF e.type = "MOUSEBUTTONDOWN" THEN
        IF collidepoint(b.rect, e.pos) THEN [b EXCEPT !.is_down = TRUE] ELSE b
    ELSE IF e.type = "MOUSEBUTTONUP" THEN [b EXCEPT !.is_down = FALSE]
    ELSE b

\* Buttons.was_clicked
was_clicked(b, e) ==
    e.type = "MOUSEBUTTONUP" /\ collidepoint(b.rect, e.pos)

(* ----------------------------- event loop ----------------------------- *)

\* pygame.event.Event(type, button=..., pos=...); an attribute the type
\* does not carry is 0 or <<0, 0>>.
Event(type, b, pos) == [type |-> type, button |-> b, pos |-> pos]

\* No event handled yet.
NoEvent == Event("NOEVENT", 0, <<0, 0>>)

\* AudioPlayer.__init__ (with Player_Window._buttons_init for the icon).
AudioInit ==
    /\ AUDIO_OK \in BOOLEAN
    /\ playlist = <<>>
    /\ index = 0
    /\ is_playing = FALSE
    /\ paused = FALSE
    /\ loop_mode = 0
    /\ current_song_title = ""
    /\ current_song_artist = ""
    /\ current_song_length = "0:00"
    /\ song_length = 0
    /\ seek_offset = 0
    /\ last_update_time = 0
    /\ current_icon = "play"
    /\ clock = 0
    /\ music = "none"
    /\ end_events = 0
    /\ cmds = <<>>
    /\ intent = "init"
    /\ fault = "none"
    /\ current_seconds = 0
    /\ current_song_position = "0:00"

\* No mouse event has reached the widgets.
Untouched ==
    /\ event = NoEvent
    /\ on_click = <<>>
    /\ clicked = FALSE

\* Player_Window.__init__: the audio player, the music slider and a button.
Init ==
    /\ AudioInit
    /\ slider = [rect |-> Rect(SliderX, 0, SliderWidth, 1),
                 value |-> <<0, 1>>, dragging |-> FALSE]
    /\ button = [rect |-> ButtonRect, is_down |-> FALSE]
    /\ Untouched

\* The event loop runs until an exception leaves a handler.
Running == fault = "none"

\* The outcomes to try for a backend call: S when the handler can reach
\* the call, the single value d when it cannot.
Among(reached, S, d) == IF reached THEN S ELSE {d}

\* A handler that plays the current track gets as far as the backend.
Loaded == AUDIO_OK /\ playlist # <<>>

\* add_button clicked with the options menu open.
AddSongs ==
    /\ Running
    /\ \E files \in Selections :
         \E o \in Among(AUDIO_OK /\ files # <<>>, PlayOutcomes, "ok") :
           Commit(add_songs(Self, files, o, clock), "add_songs")
    /\ UNCHANGED <<AUDIO_OK, clock, end_events>>
    /\ UNCHANGED <<widgets, display>>

\* current_icon clicked.
TogglePlayPause ==
    /\ Running
    /\ \E ok \in Among(Loaded /\ (is_playing \/ paused), BOOLEAN, TRUE),
          o1 \in Among(Loaded /\ ~is_playing /\ ~paused, PlayOutcomes, "ok") :
         \E o2 \in Among(Loaded /\ ~is_playing /\ (~ok \/ o1 \in {"load", "play"}),
                         PlayOutcomes, "ok") :
           Commit(toggle_play_pause(Self, ok, o1, o2, clock), "toggle_play_pause")
    /\ UNCHANGED <<AUDIO_OK, clock, end_events>>
    /\ UNCHANGED <<widgets, display>>

\* next_bnt clicked.
NextSong ==
    /\ Running
    /\ \E o \in Among(Loaded, PlayOutcomes, "ok") :
           Commit(next_song(Self, o, clock), "next_song")
    /\ UNCHANGED <<AUDIO_OK, clock, end_events>>
    /\ UNCHANGED <<widgets, display>>

\* previous_bnt clicked.
PreviousSong ==
    /\ Running
    /\ \E o \in Among(Loaded, PlayOutcomes, "ok") :
           Commit(previous_song(Self, o, clock), "previous_song")
    /\ UNCHANGED <<AUDIO_OK, clock, end_events>>
    /\ UNCHANGED <<widgets, display>>

\* music_slider moved.
AdjustSong ==
    /\ Running
    /\ \E value \in SliderValues :
         \E o \in Among(playlist # <<>> /\ song_length # 0,
                        IF is_playing /\ ~paused THEN SeekOutcomes \ {"play"}
                        ELSE SeekOutcomes, "ok") :
           Commit(adjust_song(Self, value, o, clock), "adjust_song")
    /\ UNCHANGED <<AUDIO_OK, clock, end_events>>
    /\ UNCHANGED <<widgets, display>>

\* volume_slider moved.
ChangeVolume ==
    /\ Running
    /\ \E value \in VolumeValues, ok \in BOOLEAN :
           Commit(change_volume(Self, value, ok), "change_volume")
    /\ UNCHANGED <<AUDIO_OK, clock, end_events>>
    /\ UNCHANGED <<widgets, display>>

\* current_loop_icon clicked.
ToggleLoopMode ==
    /\ Running
    /\ Commit(toggle_loop_mode(Self), "toggle_loop_mode")
    /\ UNCHANGED <<AUDIO_OK, clock, end_events>>
    /\ UNCHANGED <<widgets, display>>

\* A USEREVENT+1 event is taken from the queue.
OnSongEnd ==
    /\ Running
    /\ end_events > 0
    /\ \E o \in Among(AUDIO_OK /\ loop_mode # 0, PlayOutcomes, "ok") :
           Commit(on_song_end(Self, o, clock), "on_song_end")
    /\ end_events' = end_events - 1
    /\ UNCHANGED <<AUDIO_OK, clock>>
    /\ UNCHANGED <<widgets, display>>

\* The backend plays the loaded music to its end and posts USEREVENT+1.
TrackFinished ==
    /\ Running
    /\ music = "playing"
    /\ end_events < MaxPending
    /\ music' = "stopped"
    /\ end_events' = end_events + 1
    /\ intent' = "track_finished"
    /\ cmds' = <<>>
    /\ UNCHANGED <<AUDIO_OK, playlist, index, is_playing, paused, loop_mode,
                   current_song_title, current_song_artist, current_song_length,
                   song_length, seek_offset, last_update_time, current_icon,
                   clock, fault>>
    /\ UNCHANGED <<widgets, display>>

\* Time passes (clock.tick(60) and the frames in between).
Tick ==
    /\ Running
    /\ clock < MaxTicks * TickStep
    /\ clock' = clock + TickStep
    /\ intent' = "tick"
    /\ cmds' = <<>>
    /\ UNCHANGED <<AUDIO_OK, playlist, index, is_playing, paused, loop_mode,
                   current_song_title, current_song_artist, current_song_length,
                   song_length, seek_offset, last_update_time, current_icon,
                   music, end_events, fault>>
    /\ UNCHANGED <<widgets, display>>

Next ==
    \/ AddSongs
    \/ TogglePlayPause
    \/ NextSong
    \/ PreviousSong
    \/ AdjustSong
    \/ ChangeVolume
    \/ ToggleLoopMode
    \/ OnSongEnd
    \/ TrackFinished
    \/ Tick

Spec == Init /\ [][Next]_vars

\* The load and play of one _play_music both accepted.
AcceptedPlays == {"ok", "meta"}

\* The title, artist and duration _song_meta_data reads from track t.
MetaData(t) ==
    <<IF TitleTags(t) # <<>> THEN TitleTags(t)[1] ELSE "",
      IF ArtistTags(t) # <<>> THEN ArtistTags(t)[1] ELSE "",
      InfoLengthMs(t) \div TicksPerSecond>>

(* ------------------- the widgets under mouse events ------------------- *)

\* A slider and a button as constructed, for each rect and initial value.
WidgetInit ==
    /\ AudioInit
    /\ \E rect \in SliderRects, value \in InitialValues :
         slider = [rect |-> rect, value |-> value, dragging |-> FALSE]
    /\ button = [rect |-> ButtonRect, is_down |-> FALSE]
    /\ Untouched

\* One pass of the loop body over event e: handle_overlay, then the
\* slider's handle_event, then was_clicked.  The callback is recorded in
\* on_click, not run.
Handle(e) ==
    LET b == handle_overlay(button, e)
        s == handle_event([rect |-> slider.rect, value |-> slider.value,
                           dragging |-> slider.dragging, on_click |-> <<>>], e)
    IN  /\ button' = b
        /\ slider' = [rect |-> s.rect, value |-> s.value,
                      dragging |-> s.dragging]
        /\ on_click' = s.on_click
        /\ clicked' = was_clicked(b, e)
        /\ event' = e

MouseButtonDown ==
    /\ \E b \in MouseButtons, pos \in Positions :
           Handle(Event("MOUSEBUTTONDOWN", b, pos))
    /\ UNCHANGED <<audio, display>>

MouseMotion ==
    /\ \E pos \in Positions : Handle(Event("MOUSEMOTION", 0, pos))
    /\ UNCHANGED <<audio, display>>

MouseButtonUp ==
    /\ \E b \in MouseButtons, pos \in Positions :
           Handle(Event("MOUSEBUTTONUP", b, pos))
    /\ UNCHANGED <<audio, display>>

KeyDown ==
    /\ Handle(Event("KEYDOWN", 0, <<0, 0>>))
    /\ UNCHANGED <<audio, display>>

WidgetNext ==
    \/ MouseButtonDown
    \/ MouseMotion
    \/ MouseButtonUp
    \/ KeyDown

WidgetSpec == WidgetInit /\ [][WidgetNext]_vars

(* ------------------------ the position display ------------------------ *)

\* self.current_song_position = self.convert_sec_min(current_seconds), for
\* a position that has grown since the call before.
ConvertSecMin ==
    /\ current_seconds <= MaxSeconds * TicksPerSecond
    /\ \E step \in SecondsSteps :
         /\ current_seconds' = current_seconds + step
         /\ current_song_position' = convert_sec_min(current_seconds + step)
    /\ UNCHANGED <<audio, widgets>>

DisplayNext == ConvertSecMin

DisplaySpec == Init /\ [][DisplayNext]_vars

(* --------------------- unattended repeat-all play --------------------- *)

\* A playlist is loaded, one of its tracks has been playing since time 0
\* and the loop mode has just been set to 1; the backend works.
RepeatInit ==
    /\ AUDIO_OK = TRUE
    /\ playlist \in Selections \ {<<>>}
    /\ index \in 0..(Len(playlist) - 1)
    /\ is_playing = TRUE
    /\ paused = FALSE
    /\ loop_mode = 1
    /\ current_song_title = MetaData(playlist[index + 1])[1]
    /\ current_song_artist = MetaData(playlist[index + 1])[2]
    /\ song_length = MetaData(playlist[index + 1])[3]
    /\ current_song_length = Format(song_length \div 60, song_length % 60)
    /\ seek_offset = 0
    /\ last_update_time = 0
    /\ current_icon = "pause"
    /\ clock \in {k * TickStep : k \in 0..MaxTicks}
    /\ music = "playing"
    /\ end_events = 0
    /\ cmds = <<>>
    /\ intent = "toggle_loop_mode"
    /\ fault = "none"
    /\ current_seconds = 0
    /\ current_song_position = "0:00"
    /\ slider = [rect |-> Rect(SliderX, 0, SliderWidth, 1),
                 value |-> <<0, 1>>, dragging |-> FALSE]
    /\ button = [rect |-> ButtonRect, is_down |-> FALSE]
    /\ Untouched

\* A USEREVENT+1 event is taken from the queue, the backend accepting the
\* load and the play of the handler.
AcceptedOnSongEnd ==
    /\ Running
    /\ end_events > 0
    /\ \E o \in AcceptedPlays :
           Commit(on_song_end(Self, o, clock), "on_song_end")
    /\ end_events' = end_events - 1
    /\ UNCHANGED <<AUDIO_OK, clock>>
    /\ UNCHANGED <<widgets, display>>

\* The loop body's update_current_position, once a frame.
UpdateCurrentPosition ==
    /\ Running
    /\ current_seconds' = IF playlist # <<>> /\ song_length > 0
                          THEN get_current_position(clock)
                          ELSE current_seconds
    /\ current_song_position' = update_current_position(clock)
    /\ UNCHANGED <<audio, widgets>>

RepeatNext ==
    \/ TrackFinished
    \/ AcceptedOnSongEnd
    \/ Tick
    \/ UpdateCurrentPosition

\* Every started track ends, and the loop takes every event off the queue.
RepeatSpec ==
    /\ RepeatInit
    /\ [][RepeatNext]_vars
    /\ WF_vars(TrackFinished)
    /\ WF_vars(AcceptedOnSongEnd)

(* ------------------------------ claims -------------------------------- *)

\* C1: whenever the playlist is non-empty the current index satisfies
\* 0 <= index < len(playlist), also after a load that replaces a longer
\* playlist by a shorter one.
C1_IndexInRange ==
    playlist # <<>> => (0 <= index /\ index < Len(playlist))

\* C2: add_songs with a non-empty selection that the backend accepts sets
\* the index to 0, loads and plays the first track of the new playlist,
\* resets the offset to 0 and leaves the status Playing.
C2_LoadPlaysFirstTrack ==
    (/\ intent = "add_songs"
     /\ Len(MixerCalls(cmds)) = 2
     /\ fault = "none")
    => /\ index = 0
       /\ MixerCalls(cmds) = <<<<"load", playlist[1], TRUE>>, <<"play", 0, TRUE>>>>
       /\ seek_offset = 0
       /\ is_playing /\ ~paused

\* C3: is_playing and paused are never both true, and whenever either is
\* true the playlist is non-empty.
C3_FlagsExclusive ==
    /\ ~(is_playing /\ paused)
    /\ (is_playing \/ paused) => playlist # <<>>

\* C3's case: a pause has taken the player from Playing to Paused, with a
\* playlist loaded.
C3_Witness ==
    /\ intent = "toggle_play_pause"
    /\ cmds = <<<<"pause", 0, TRUE>>>>
    /\ paused /\ ~is_playing
    /\ playlist # <<>>

\* C4: when the backend rejects a load or play during next, previous,
\* add_songs or toggle_play_pause, index, status, offset, anchor and
\* playlist are what they were before the intent.
C4_RejectedLoadChangesNothing ==
    [][(/\ intent' \in {"next_song", "previous_song", "add_songs",
                        "toggle_play_pause"}
        /\ RejectedPlay(cmds'))
       => /\ index' = index
          /\ is_playing' = is_playing
          /\ paused' = paused
          /\ seek_offset' = seek_offset
          /\ last_update_time' = last_update_time
          /\ playlist' = playlist]_vars

\* C5: a load or play the backend rejects never leaves the intent as an
\* exception into the event loop.
C5_NoBackendFaultEscapes ==
    ~(fault = "pygame.error" /\ RejectedPlay(cmds))

\* C6: when the backend rejects set_pos during a seek, seek_offset and
\* last_update_time keep their values, the status is unchanged and no
\* exception escapes.
C6_RejectedSeekChangesNothing ==
    [][(/\ intent' = "adjust_song"
        /\ cmds' # <<>>
        /\ cmds'[1][1] = "set_pos" /\ cmds'[1][3] = FALSE)
       => /\ seek_offset' = seek_offset
          /\ last_update_time' = last_update_time
          /\ is_playing' = is_playing
          /\ paused' = paused
          /\ fault' = "none"]_vars

\* C7: every resume from Paused re-anchors the position clock:
\* last_update_time becomes the current clock value.
C7_ResumeReanchors ==
    (/\ intent = "toggle_play_pause"
     /\ cmds = <<<<"unpause", 0, TRUE>>>>)
    => last_update_time = clock

\* C8: when the metadata of the track that becomes current cannot be read,
\* the stored metadata becomes title "", artist "", duration 0.
C8_FailedMetadataIsEmpty ==
    (/\ cmds # <<>>
     /\ cmds[Len(cmds)][1] = "MP3" /\ cmds[Len(cmds)][3] = FALSE)
    => /\ current_song_title = ""
       /\ current_song_artist = ""
       /\ song_length = 0

\* C9: when the backend failed to initialise, no intent makes the status
\* Playing.
C9_NoPlayingWithoutBackend ==
    ~AUDIO_OK => ~is_playing

\* C10: when the backend failed to initialise, no intent issues a backend
\* command.
C10_NoCommandWithoutBackend ==
    ~AUDIO_OK => MixerCalls(cmds) = <<>>

\* Every external call of c returned normally.
AllAccepted(c) == \A i \in DOMAIN c : c[i][3]

\* c holds, as its calls to the mixer, a load of track t and a play from
\* the start, both accepted.
Played(c, t) ==
    MixerCalls(c) = <<<<"load", t, TRUE>>, <<"play", 0, TRUE>>>>

\* C11: when the backend rejects the pause of a toggle_play_pause issued in
\* Playing, the status is still Playing and index, seek_offset and
\* last_update_time are what they were.
C11_RejectedPauseChangesNothing ==
    [][(/\ intent' = "toggle_play_pause"
        /\ is_playing /\ ~paused
        /\ cmds' = <<<<"pause", 0, FALSE>>>>)
       => /\ is_playing' /\ ~paused'
          /\ index' = index
          /\ seek_offset' = seek_offset
          /\ last_update_time' = last_update_time]_vars

\* C12: with a non-empty playlist and song_length > 0, an adjust_song(f)
\* whose backend calls are accepted sets seek_offset to f * song_length
\* and last_update_time to the clock and leaves the status Playing,
\* whatever the status was; index and playlist are unchanged.
C12_SeekSetsPositionAndPlays ==
    [][(/\ intent' = "adjust_song"
        /\ playlist # <<>> /\ song_length > 0
        /\ AllAccepted(cmds'))
       => /\ \E value \in SliderValues :
               LET position == (value[1] * song_length * TicksPerSecond)
                                  \div value[2]
               IN  /\ seek_offset' = position
                   /\ cmds'[1] = <<"set_pos", position, TRUE>>
          /\ last_update_time' = clock
          /\ is_playing' /\ ~paused'
          /\ index' = index
          /\ playlist' = playlist]_vars

\* C12's case: a seek to the middle of the track has started playback from
\* a status that was not Playing.
C12_Witness ==
    /\ intent = "adjust_song"
    /\ MixerCalls(cmds) = <<<<"set_pos", (song_length * TicksPerSecond) \div 2, TRUE>>,
                            <<"play", (song_length * TicksPerSecond) \div 2, TRUE>>>>
    /\ seek_offset = (song_length * TicksPerSecond) \div 2
    /\ seek_offset > 0
    /\ is_playing /\ ~paused

\* C13: with a playlist of length n > 0 and a backend that accepts the
\* load and the play, next_song sets index to (index + 1) mod n and
\* previous_song to (index - 1) mod n; each loads and plays the track at
\* the new index, resets seek_offset to 0 and leaves the status Playing,
\* whatever the status was.
C13_NextPreviousWrap ==
    [][(/\ intent' \in {"next_song", "previous_song"}
        /\ AUDIO_OK /\ playlist # <<>>
        /\ AllAccepted(MixerCalls(cmds')))
       => /\ index' = (index + (IF intent' = "next_song" THEN 1 ELSE -1))
                         % Len(playlist)
          /\ Played(cmds', playlist[index' + 1])
          /\ seek_offset' = 0
          /\ is_playing' /\ ~paused']_vars

\* C13's case: a next has wrapped from the last track of a playlist of
\* two or more to the first and is playing it.
C13_Witness ==
    /\ intent = "next_song"
    /\ Len(playlist) >= 2
    /\ index = 0
    /\ Played(cmds, playlist[1])
    /\ is_playing /\ ~paused

\* C14: from every reachable state with a non-empty playlist and the index
\* in range, next_song then previous_song, and previous_song then
\* next_song, each accepted by the backend, bring the index back to where
\* it was, and the status is Playing after each of the two calls.
C14_NextPreviousRestoreIndex ==
    (Running /\ playlist # <<>>)
    => \A o1 \in AcceptedPlays, o2 \in AcceptedPlays :
         LET forth == next_song(Self, o1, clock)
             back == previous_song(forth, o2, clock)
             down == previous_song(Self, o1, clock)
             up == next_song(down, o2, clock)
         IN  /\ back.index = index
             /\ up.index = index
             /\ forth.index # index <=> Len(playlist) > 1
             /\ \A r \in {forth, back, down, up} :
                    r.is_playing /\ ~r.paused /\ r.raised = "none"

\* C14's case: a previous_song has just gone from the first track of a
\* playlist of two or more round to the last, so that the next_song which
\* undoes it has to wrap.
C14_Witness ==
    /\ Running
    /\ intent = "previous_song"
    /\ Len(playlist) >= 2
    /\ index = Len(playlist) - 1
    /\ Played(cmds, playlist[Len(playlist)])
    /\ next_song(Self, "ok", clock).index = 0

\* C15: when USEREVENT+1 is handled with loop_mode 0, is_playing and paused
\* are both false afterwards, seek_offset is 0, the index is what it was
\* and no backend command is issued.
C15_EndWithLoopOffStops ==
    [][(intent' = "on_song_end" /\ loop_mode = 0)
       => /\ ~is_playing' /\ ~paused'
          /\ seek_offset' = 0
          /\ index' = index
          /\ cmds' = <<>>]_vars

\* C15's case: the track ended on its own with loop_mode 0 and the handler
\* has stopped the player, the backend being silent.
C15_Witness ==
    /\ intent = "on_song_end"
    /\ loop_mode = 0
    /\ music = "stopped"
    /\ playlist # <<>>
    /\ ~is_playing /\ ~paused
    /\ seek_offset = 0
    /\ current_icon = "play"

\* C16: when USEREVENT+1 is handled with loop_mode 1, the state the handler
\* leaves and the backend calls it makes are those of a next_song from the
\* state the handler started in.
C16_EndWithRepeatAllIsNext ==
    [][(intent' = "on_song_end" /\ loop_mode = 1)
       => \E o \in PlayOutcomes :
            LET r == next_song(Self, o, clock)
            IN  /\ playlist' = r.playlist
                /\ index' = r.index
                /\ is_playing' = r.is_playing
                /\ paused' = r.paused
                /\ loop_mode' = r.loop_mode
                /\ seek_offset' = r.seek_offset
                /\ last_update_time' = r.last_update_time
                /\ song_length' = r.song_length
                /\ current_song_title' = r.current_song_title
                /\ current_song_artist' = r.current_song_artist
                /\ current_song_length' = r.current_song_length
                /\ current_icon' = r.current_icon
                /\ music' = r.music
                /\ cmds' = r.cmds
                /\ fault' = r.raised]_vars

\* C16's case: the last track of a playlist of two or more ended with
\* loop_mode 1 and the handler wrapped to the first track and plays it.
C16_Witness ==
    /\ intent = "on_song_end"
    /\ loop_mode = 1
    /\ Len(playlist) >= 2
    /\ index = 0
    /\ Played(cmds, playlist[1])
    /\ is_playing

\* C17: when USEREVENT+1 is handled with loop_mode 2 and the backend
\* accepts the load and the play, the track at the unchanged index is
\* loaded and played again, seek_offset is 0, last_update_time is the
\* clock and the status is Playing.
C17_EndWithRepeatOneReplays ==
    [][(/\ intent' = "on_song_end"
        /\ loop_mode = 2
        /\ AllAccepted(MixerCalls(cmds')))
       => /\ index' = index
          /\ Played(cmds', playlist[index + 1])
          /\ seek_offset' = 0
          /\ last_update_time' = clock
          /\ is_playing' /\ ~paused']_vars

\* C17's case: a track ended with loop_mode 2 after the clock had moved
\* and is playing again from the start.
C17_Witness ==
    /\ intent = "on_song_end"
    /\ loop_mode = 2
    /\ Played(cmds, playlist[index + 1])
    /\ clock > 0 /\ last_update_time = clock
    /\ seek_offset = 0
    /\ is_playing /\ ~paused

\* C18: a toggle_play_pause in Playing, with the backend available and the
\* pause accepted, issues pause and nothing else and leaves is_playing
\* false and paused true; index, playlist, loop_mode and seek_offset are
\* what they were.
C18_ToggleInPlayingPauses ==
    [][(/\ intent' = "toggle_play_pause"
        /\ is_playing /\ ~paused
        /\ AUDIO_OK
        /\ AllAccepted(cmds'))
       => /\ cmds' = <<<<"pause", 0, TRUE>>>>
          /\ ~is_playing' /\ paused'
          /\ index' = index
          /\ playlist' = playlist
          /\ loop_mode' = loop_mode
          /\ seek_offset' = seek_offset]_vars

\* C18's case: playback that had been moved by a seek has been paused, the
\* backend included.
C18_Witness ==
    /\ intent = "toggle_play_pause"
    /\ cmds = <<<<"pause", 0, TRUE>>>>
    /\ music = "paused"
    /\ paused /\ ~is_playing
    /\ seek_offset > 0

\* C19: a toggle_play_pause in Paused whose unpause the backend accepts
\* issues unpause and no load or play, leaves index and playlist as they
\* were and the status Playing with paused false.
C19_ToggleInPausedResumes ==
    [][(/\ intent' = "toggle_play_pause"
        /\ paused /\ ~is_playing
        /\ AllAccepted(cmds'))
       => /\ cmds' = <<<<"unpause", 0, TRUE>>>>
          /\ index' = index
          /\ playlist' = playlist
          /\ is_playing' /\ ~paused']_vars

\* C19's case: a paused track has been resumed, the backend included, on
\* a track other than the first.
C19_Witness ==
    /\ intent = "toggle_play_pause"
    /\ cmds = <<<<"unpause", 0, TRUE>>>>
    /\ music = "playing"
    /\ is_playing /\ ~paused
    /\ index > 0

\* C20: a toggle_play_pause in Stopped with a non-empty playlist, the
\* backend available and accepting the load and the play, loads and plays
\* playlist[index] from the start: index unchanged, seek_offset 0,
\* last_update_time the clock, status Playing.
C20_ToggleInStoppedPlaysCurrent ==
    [][(/\ intent' = "toggle_play_pause"
        /\ ~is_playing /\ ~paused
        /\ AUDIO_OK /\ playlist # <<>>
        /\ AllAccepted(MixerCalls(cmds')))
       => /\ index' = index
          /\ Played(cmds', playlist[index + 1])
          /\ seek_offset' = 0
          /\ last_update_time' = clock
          /\ is_playing' /\ ~paused']_vars

\* C20's case: with loop_mode 0 the current track, not the first of the
\* playlist, has been started from the beginning by toggle_play_pause,
\* the clock having moved.
C20_Witness ==
    /\ intent = "toggle_play_pause"
    /\ loop_mode = 0
    /\ index > 0
    /\ Played(cmds, playlist[index + 1])
    /\ clock > 0 /\ last_update_time = clock
    /\ seek_offset = 0
    /\ is_playing /\ ~paused

\* C21: a toggle_play_pause in Paused calls unpause first; when unpause
\* raises and the backend accepts the load and play that follow, the
\* current track is loaded and played afresh: status Playing, paused
\* false, seek_offset 0, index unchanged, and the backend is playing.
C21_FailedResumeFallsBackToPlay ==
    [][(/\ intent' = "toggle_play_pause"
        /\ paused /\ ~is_playing
        /\ cmds' # <<>>
        /\ cmds'[1] = <<"unpause", 0, FALSE>>
        /\ AllAccepted(MixerCalls(Tail(cmds'))))
       => /\ MixerCalls(Tail(cmds')) =
                 <<<<"load", playlist[index + 1], TRUE>>, <<"play", 0, TRUE>>>>
          /\ is_playing' /\ ~paused'
          /\ music' = "playing"
          /\ seek_offset' = 0
          /\ index' = index
          /\ fault' = "none"]_vars

\* C21's case: the unpause of a paused track was rejected and the track,
\* not the first of the playlist, was loaded and played from the start.
C21_Witness ==
    /\ intent = "toggle_play_pause"
    /\ index > 0
    /\ MixerCalls(cmds) = <<<<"unpause", 0, FALSE>>,
                            <<"load", playlist[index + 1], TRUE>>,
                            <<"play", 0, TRUE>>>>
    /\ is_playing /\ ~paused
    /\ seek_offset = 0

\* The clock values at which the position may be read before the next
\* intent: now and the ticks after it.
LaterClocks == {clock + k * TickStep : k \in 0..(MaxTicks + 1)}

\* C22: in every reachable state and at every later clock value
\* get_current_position is at most song_length, in Playing as well as in
\* Paused and Stopped.
C22_PositionWithinDuration ==
    \A now \in LaterClocks :
        get_current_position(now) <= song_length * TicksPerSecond

\* C22's case: a track is playing and the time elapsed since the anchor
\* has carried offset + elapsed past the duration, so that the clamp acts.
C22_Witness ==
    /\ is_playing /\ ~paused
    /\ song_length > 0
    /\ seek_offset + (clock - last_update_time) > song_length * TicksPerSecond
    /\ get_current_position(clock) = song_length * TicksPerSecond

\* C23: when time advances between two intents, the position read after
\* the tick is at least the position read before it while the status is
\* Playing, and equal to it while the status is Paused.  A tick changes
\* the clock alone, so the position before it is the one read at
\* clock - TickStep.
C23_PositionMonotoneWhilePlaying ==
    intent = "tick"
    => /\ (is_playing /\ ~paused)
             => get_current_position(clock - TickStep) <= get_current_position(clock)
       /\ (paused /\ ~is_playing)
             => get_current_position(clock - TickStep) = get_current_position(clock)

\* C23's case: time has advanced during playback and the position has
\* grown with it.
C23_Witness ==
    /\ intent = "tick"
    /\ is_playing /\ ~paused
    /\ last_update_time <= clock - TickStep
    /\ get_current_position(clock - TickStep) < get_current_position(clock)

\* C24: get_current_position is seek_offset when the status is Paused or
\* Stopped (0 when nothing was ever loaded), and in Playing it is the
\* smaller of seek_offset + (now - last_update_time) and song_length, the
\* tick difference being in milliseconds.
C24_PositionFormula ==
    \A now \in LaterClocks :
        LET elapsed == now - last_update_time
            limit == song_length * TicksPerSecond
        IN  /\ (~is_playing) => get_current_position(now) = seek_offset
            /\ (is_playing /\ ~paused /\ seek_offset + elapsed <= limit)
                  => get_current_position(now) = seek_offset + elapsed
            /\ (is_playing /\ ~paused /\ seek_offset + elapsed > limit)
                  => get_current_position(now) = limit
            /\ (playlist = <<>>) => get_current_position(now) = 0

\* C24's case: a track is playing, time has passed since the anchor and
\* the position lies strictly inside the track.
C24_Witness ==
    /\ is_playing /\ ~paused
    /\ clock > last_update_time
    /\ get_current_position(clock) = seek_offset + (clock - last_update_time)
    /\ get_current_position(clock) < song_length * TicksPerSecond

\* C25: after add_songs, next_song, previous_song or an advance by
\* on_song_end that loaded and played playlist[index], the stored title,
\* artist and duration are those of playlist[index] (or empty, when its
\* file could not be read), never those of another track.
C25_MetadataOfCurrentTrack ==
    (/\ \/ intent \in {"add_songs", "next_song", "previous_song"}
        \/ intent = "on_song_end" /\ loop_mode = 1
     /\ InRange(Self)
     /\ Played(cmds, playlist[index + 1]))
    => LET t == playlist[index + 1]
           stored == <<current_song_title, current_song_artist, song_length>>
       IN  IF cmds[Len(cmds)] = <<"MP3", t, TRUE>> THEN stored = MetaData(t)
           ELSE stored \in {MetaData(t), <<"", "", 0>>}

\* What the _play_music behind the calls c met: the call that failed, or
\* none.
Outcome(c) ==
    IF c = <<>> \/ c[Len(c)][3] THEN "ok"
    ELSE IF c[Len(c)][1] = "MP3" THEN "meta"
    ELSE c[Len(c)][1]

\* C26: every add_songs step is that of the empty selection, and then no
\* field changes and nothing is called, or that of the selection which is
\* the playlist afterwards: the playlist is the selected files in their
\* order, whatever the playlist was and whatever the backend answered.
C26_LoadReplacesPlaylist ==
    [][(intent' = "add_songs")
       => \/ /\ cmds' = <<>>
             /\ fault' = "none"
             /\ UNCHANGED <<playlist, index, is_playing, paused, loop_mode,
                            song_length, seek_offset, last_update_time,
                            current_song_title, current_song_artist,
                            current_song_length, current_icon, music>>
             /\ add_songs(Self, <<>>, "ok", clock) = Self
          \/ /\ playlist' \in Selections \ {<<>>}
             /\ Commit(add_songs(Self, playlist', Outcome(cmds'), clock),
                       "add_songs")]_vars

\* C26's case: add_songs has replaced a playlist that held track 1 (its
\* title is still stored) by a selection without it.
C26_Witness ==
    /\ intent = "add_songs"
    /\ playlist = <<2>>
    /\ current_song_title = TitleTags(1)[1]
    /\ fault = "none"

\* C27: while the playlist is empty, toggle_play_pause, next_song,
\* previous_song and adjust_song leave the status Stopped, index 0,
\* seek_offset 0 and the playlist empty, call no backend and raise nothing.
C27_EmptyPlaylistNoOps ==
    (/\ playlist = <<>>
     /\ intent \in {"toggle_play_pause", "next_song", "previous_song",
                    "adjust_song"})
    => /\ ~is_playing /\ ~paused
       /\ index = 0
       /\ seek_offset = 0
       /\ cmds = <<>>
       /\ fault = "none"

\* C27's case: next_song has run on an empty playlist with the backend
\* available, after time has passed.
C27_Witness ==
    /\ playlist = <<>>
    /\ intent = "next_song"
    /\ AUDIO_OK
    /\ clock > 0
    /\ index = 0 /\ ~is_playing

\* C28: a finished notification raised for one track never makes
\* on_song_end act on a different playback: when the notification is
\* handled while the backend is playing what a next_song, previous_song,
\* adjust_song or add_songs handled before it has started, the handler
\* changes neither index nor status nor offset and calls no backend.
C28_StaleEndEventIgnored ==
    [][(intent' = "on_song_end" /\ music = "playing")
       => /\ index' = index
          /\ is_playing' = is_playing
          /\ paused' = paused
          /\ seek_offset' = seek_offset
          /\ music' = music
          /\ cmds' = <<>>]_vars

\* C29: toggle_loop_mode takes 0 to 1, 1 to 2 and 2 to 0 and returns the
\* new mode; three calls in a row restore the mode, n calls have the
\* effect of n mod 3 calls, and ten calls from 0 give 1.  Stated of the
\* calls that follow construction or an earlier toggle_loop_mode, which
\* start from each of the three modes.
C29_LoopModeCycle ==
    intent \in {"init", "toggle_loop_mode"} =>
      LET self == Self
          once == toggle_loop_mode(self)
          seen == Toggled(self, MaxToggles)
      IN  /\ once.loop_mode =
                 (CASE loop_mode = 0 -> 1 [] loop_mode = 1 -> 2 [] OTHER -> 0)
          /\ toggle_loop_mode_returns(self) = once.loop_mode
          /\ toggle_loop_mode(toggle_loop_mode(once)) = self
          /\ \A n \in 0..MaxToggles : seen[n + 1] = seen[(n % 3) + 1]
          /\ loop_mode = 0 => seen[10 + 1] = 1

\* C29's case: with a track playing, toggle_loop_mode has just taken the
\* mode from 2 round to 0.
C29_Witness ==
    /\ intent = "toggle_loop_mode"
    /\ loop_mode = 0
    /\ is_playing
    /\ Toggled(Self, 2) = <<0, 1, 2>>

\* C30: toggle_loop_mode and change_volume leave status, playlist, index,
\* seek_offset, last_update_time and the metadata as they were;
\* toggle_loop_mode calls no backend and change_volume leaves loop_mode
\* as it was too.
C30_LoopAndVolumeFrame ==
    [][(intent' \in {"toggle_loop_mode", "change_volume"})
       => /\ is_playing' = is_playing
          /\ paused' = paused
          /\ playlist' = playlist
          /\ index' = index
          /\ seek_offset' = seek_offset
          /\ last_update_time' = last_update_time
          /\ song_length' = song_length
          /\ current_song_title' = current_song_title
          /\ current_song_artist' = current_song_artist
          /\ current_song_length' = current_song_length
          /\ intent' = "toggle_loop_mode" => cmds' = <<>>
          /\ intent' = "change_volume" => loop_mode' = loop_mode]_vars

\* C30's case: the loop mode was changed during playback that a seek had
\* moved, and the position is still where the seek put it.
C30_Witness ==
    /\ intent = "toggle_loop_mode"
    /\ loop_mode # 0
    /\ is_playing /\ ~paused
    /\ seek_offset > 0

\* The names of the calls of c, in order.
Ops(c) == [i \in DOMAIN c |-> c[i][1]]

\* C37: an adjust_song the backend accepts issues set_pos followed by
\* unpause when the status was Paused, set_pos followed by a play from the
\* target position when it was Stopped, and set_pos alone when it was
\* Playing.
C37_SeekRestartsByStatus ==
    [][(/\ intent' = "adjust_song"
        /\ cmds' # <<>>
        /\ AllAccepted(cmds'))
       => /\ (paused /\ ~is_playing) => Ops(cmds') = <<"set_pos", "unpause">>
          /\ (~paused /\ ~is_playing) => Ops(cmds') = <<"set_pos", "play">>
          /\ (is_playing /\ ~paused) => Ops(cmds') = <<"set_pos">>]_vars

\* C38: when toggle_play_pause takes the player from Playing to Paused,
\* get_current_position read at the same clock value gives after the
\* pause what it gave before it.
C38_PauseKeepsPosition ==
    [][(/\ intent' = "toggle_play_pause"
        /\ is_playing /\ ~paused
        /\ paused' /\ ~is_playing')
       => get_current_position(clock)' = get_current_position(clock)]_vars

\* C39: audio.current_icon is the pause button exactly when is_playing is
\* true and the play button otherwise.
C39_IconFollowsStatus ==
    (current_icon = "pause") <=> is_playing

\* The value the rect and the mouse's x give: 0 left of the track, 1 at
\* or right of its end, (x - rect.x) / rect.width between.
Target(rect, x) ==
    IF x <= rect.x THEN <<0, 1>>
    ELSE IF x >= rect.x + rect.width THEN <<1, 1>>
    ELSE <<x - rect.x, rect.width>>

\* The event just handled reached _update_slider_position with a rect
\* that has a width: a left press inside the rect, or a motion in a drag.
Updated ==
    /\ slider.rect.width > 0
    /\ \/ /\ event.type = "MOUSEBUTTONDOWN"
          /\ event.button = 1
          /\ collidepoint(slider.rect, event.pos)
       \/ event.type = "MOUSEMOTION" /\ slider.dragging

\* 0 <= value <= 1
InUnit(value) == value[2] > 0 /\ 0 <= value[1] /\ value[1] <= value[2]

\* C31: for a position of current_seconds milliseconds, the string
\* convert_sec_min returns is the whole seconds divided by 60, unbounded,
\* a colon, and the whole seconds modulo 60 as two digits; the fraction
\* of a second is dropped: 0 -> "0:00", 65 -> "1:05", 65.7 -> "1:05",
\* 3661 -> "61:01".
C31_ConvertSecMin ==
    LET floor == current_seconds \div TicksPerSecond
        mod60 == floor % 60
    IN  /\ current_song_position =
               ToString(floor \div 60) \o ":" \o
               ToString(mod60 \div 10) \o ToString(mod60 % 10)
        /\ current_seconds = 0 => current_song_position = "0:00"
        /\ current_seconds = 65000 => current_song_position = "1:05"
        /\ current_seconds = 65700 => current_song_position = "1:05"
        /\ current_seconds = 3661000 => current_song_position = "61:01"

C31_Witness ==
    /\ current_seconds = 65700
    /\ current_song_position = "1:05"

\* C32 as stated: the slider's value is in [0, 1] in every state, and
\* after an event that updated the position it is exactly 0 left of the
\* track, 1 at or right of its end, (x - rect.x) / rect.width inside.
C32_ValueIsClampedRatio ==
    /\ InUnit(slider.value)
    /\ Updated =>
         LET target == Target(slider.rect, event.pos[1])
         IN  slider.value[1] * target[2] = target[1] * slider.value[2]

\* C32 amended: the slider's value is in [0, 1] in every state, and after
\* an event that updated the position it is within the threshold 1e-6 of
\* 0 left of the track, 1 at or right of its end, (x - rect.x) /
\* rect.width inside.
C32_ValueNearClampedRatio ==
    /\ InUnit(slider.value)
    /\ Updated =>
         LET target == Target(slider.rect, event.pos[1])
             d == slider.value[1] * target[2] - target[1] * slider.value[2]
         IN  /\ d * ThresholdInverse <= slider.value[2] * target[2]
             /\ -d * ThresholdInverse <= slider.value[2] * target[2]

C32_Witness ==
    /\ Updated
    /\ event.type = "MOUSEMOTION"
    /\ event.pos[1] < slider.rect.x
    /\ slider.value = <<0, 1>>
    /\ on_click = <<slider.value>>

\* C33: an event whose position update computes a value farther than the
\* threshold from the current one calls on_click exactly once, with that
\* value, which becomes the slider's value; one that computes the current
\* value calls nothing and leaves the value; an event without a position
\* update calls nothing.
C33_CallbackOncePerChange ==
    [][LET update ==
               /\ slider.rect.width > 0
               /\ \/ /\ event'.type = "MOUSEBUTTONDOWN"
                     /\ event'.button = 1
                     /\ collidepoint(slider.rect, event'.pos)
                  \/ event'.type = "MOUSEMOTION" /\ slider.dragging
           target == Target(slider.rect, event'.pos[1])
           d == target[1] * slider.value[2] - slider.value[1] * target[2]
           least == (slider.value[2] * target[2]) \div ThresholdInverse
       IN  /\ (update /\ (d > least \/ -d > least))
                 => on_click' = <<target>> /\ slider'.value = target
           /\ (update /\ d = 0)
                 => on_click' = <<>> /\ slider'.value = slider.value
           /\ ~update => on_click' = <<>>]_vars

C33_Witness ==
    /\ event.type = "MOUSEBUTTONDOWN"
    /\ slider.dragging
    /\ on_click = <<slider.value>>
    /\ slider.value = <<1, SliderWidth>>

\* C34: dragging turns true only by a press of button 1 inside the rect;
\* a release of button 1 anywhere leaves it false; a press outside the
\* rect or of another button leaves it as it was; a motion while it is
\* false leaves the value as it was.
C34_DragOnlyFromLeftPressInside ==
    [][/\ (~slider.dragging /\ slider'.dragging)
            => /\ event'.type = "MOUSEBUTTONDOWN"
               /\ event'.button = 1
               /\ collidepoint(slider.rect, event'.pos)
       /\ (event'.type = "MOUSEBUTTONUP" /\ event'.button = 1)
            => ~slider'.dragging
       /\ (/\ event'.type = "MOUSEBUTTONDOWN"
           /\ event'.button # 1 \/ ~collidepoint(slider.rect, event'.pos))
            => slider'.dragging = slider.dragging
       /\ (event'.type = "MOUSEMOTION" /\ ~slider.dragging)
            => slider'.value = slider.value /\ on_click' = <<>>]_vars

C34_Witness ==
    /\ slider.dragging
    /\ event.type = "MOUSEMOTION"
    /\ on_click # <<>>

\* C35: is_down turns true only by a mouse-button press inside the
\* button's rect; a press outside leaves it as it was; after a release,
\* wherever it is, is_down is false.
C35_IsDownFollowsPressAndRelease ==
    [][/\ (~button.is_down /\ button'.is_down)
            => /\ event'.type = "MOUSEBUTTONDOWN"
               /\ collidepoint(button.rect, event'.pos)
       /\ (/\ event'.type = "MOUSEBUTTONDOWN"
           /\ ~collidepoint(button.rect, event'.pos))
            => button'.is_down = button.is_down
       /\ event'.type = "MOUSEBUTTONUP" => ~button'.is_down]_vars

C35_Witness ==
    /\ button.is_down
    /\ event.type = "MOUSEBUTTONDOWN"
    /\ collidepoint(button.rect, event.pos)

\* C36: was_clicked returns True only for a MOUSEBUTTONUP inside the
\* rect that follows a press on the button (is_down set by that press
\* when the release arrives).
C36_ClickNeedsPressOnButton ==
    [][clicked' => /\ event'.type = "MOUSEBUTTONUP"
                   /\ collidepoint(button.rect, event'.pos)
                   /\ button.is_down]_vars

\* C40: with loop_mode 1, a working backend, a non-empty playlist and no
\* user intent, when every started track ends and every end event is
\* dispatched, each index of the playlist is the current index infinitely
\* often; a dispatch moves the index to its cyclic successor and leaves
\* the player playing, and nothing else moves the index.
C40_RepeatAllVisitsEveryIndex ==
    /\ \A i \in 0..(NumTracks - 1) :
           []<>(i < Len(playlist) => index = i /\ is_playing /\ ~paused)
    /\ [][IF end_events' < end_events
           THEN /\ index' = (index + 1) % Len(playlist)
                /\ is_playing' /\ ~paused' /\ music' = "playing"
           ELSE index' = index]_vars

C40_Witness ==
    /\ loop_mode = 1
    /\ Len(playlist) = NumTracks
    /\ index = 0
    /\ intent = "on_song_end"
    /\ end_events = 0
    /\ music = "playing"
    /\ is_playing /\ ~paused
====
